---------------------------- MODULE Spec2Model ----------------------------
(***************************************************************************)
(* Structured data classification with keras.utils.FeatureSpace            *)
(* (Pré_processamento_de_atributos_com_Keras_FeatureSpace.ipynb).          *)
(*                                                                         *)
(* The state is the object bound to the notebook's `feature_space`: its    *)
(* declared features and crosses, whether adapt() has completed, the       *)
(* statistics adapt() fitted, and the outcome of the last call of the      *)
(* object on a dict of raw feature values.                                 *)
(*                                                                         *)
(* The data are the rows the notebook itself shows: dataframe.head() and   *)
(* the inference `sample`.  oldpeak is kept in tenths (2.3 is 23) so that  *)
(* every numeric value is an integer.                                      *)
(***************************************************************************)
EXTENDS Integers, Sequences, FiniteSets

VARIABLES
    fs_state,       \* "Unconfigured" | "Configured" | "Adapted"
    features,       \* declared features, in declaration order
    crosses,        \* declared crosses, in declaration order
    stats,          \* fitted statistics, by feature name
    encoded_dim,    \* static width of encoded_features (0 until adapted)
    train_index,    \* index of train_dataframe (rows of Dataframe)
    val_index,      \* index of val_dataframe (rows of Dataframe)
    labels,         \* column "target" of the dataframe, by row
    frame,          \* the index of the dataframe loaded, and whether the
                    \* split cell has run
    result,         \* outcome of the last feature_space(x) call
    last_row,       \* the row of that call (0: none yet)
    probe_row,      \* the first row encoded by this adapted object (0: none)
    probe_vec,      \* and the vector it was encoded to
    probe_phase,    \* 0: no probe; 1: probe encoded; 2: then another row was
                    \* passed; 3: then the probe row was passed again
    layers,         \* the weights of the layers built, by layer name
    models,         \* training_model and inference_model: their layers
    fit,            \* training_model.fit(...): position, epochs completed
    prediction,     \* result of inference_model.predict(input_dict)
    map_call        \* per mapped dataset, the call of the feature space on
                    \* its batch: not started, in flight, or returned; par
                    \* records that another call was in flight during it

\* The dataframe and its split.
data_vars == << train_index, val_index, labels, frame >>

\* The models and their training.
train_vars == << layers, models, fit, prediction >>

vars == << fs_state, features, crosses, stats, encoded_dim,
           data_vars, result, last_row, probe_row, probe_vec, probe_phase,
           map_call, layers, models, fit, prediction >>

----------------------------------------------------------------------------
(* Bounds of the model.                                                    *)

MaxTrainRows == 2

MaxValRows == 1

\* The largest file the split is checked on, in rows.
MaxFrameRows == 10

\* Weights are kept modulo WeightModulus; a new layer's weight is one of
\* 1..MaxInitialWeight.
WeightModulus == 97

MaxInitialWeight == 1

----------------------------------------------------------------------------
(* The data shown in the notebook.                                         *)

Row(age, sex, cp, trestbps, chol, fbs, restecg, thalach, exang, oldpeak, slope, ca, thal) ==
    [age |-> age, sex |-> sex, cp |-> cp, trestbps |-> trestbps, chol |-> chol,
     fbs |-> fbs, restecg |-> restecg, thalach |-> thalach, exang |-> exang,
     oldpeak |-> oldpeak, slope |-> slope, ca |-> ca, thal |-> thal]

\* dataframe.head(): rows 0..4 of the dataframe.
Dataframe ==
    << Row(63, 1, 1, 145, 233, 1, 2, 150, 0, 23, 3, 0, "fixed"),
       Row(67, 1, 4, 160, 286, 0, 2, 108, 1, 15, 2, 3, "normal"),
       Row(67, 1, 4, 120, 229, 0, 2, 129, 1, 26, 2, 2, "reversible"),
       Row(37, 1, 3, 130, 250, 0, 0, 187, 0, 35, 3, 0, "normal"),
       Row(41, 0, 2, 130, 204, 0, 2, 172, 0, 14, 1, 0, "normal") >>

\* Column "target" of dataframe.head().
Target == << 0, 1, 0, 0, 0 >>

\* The target columns the dataframe is loaded with: the one shown, and the
\* same with every label flipped.
LabelChoices == { Target, [ i \in 1..Len(Target) |-> 1 - Target[i] ] }

\* The raw feature dict of the inference cell.
sample == Row(60, 1, 1, 145, 233, 1, 2, 150, 0, 23, 3, 0, "fixed")

\* Every row the feature space is called on: rows of the (training or
\* validation) datasets, and the inference sample.
CallRows == Dataframe \o << sample >>

\* Key order of the dicts built from the dataframe columns and of `sample`.
ColumnOrder ==
    << "age", "sex", "cp", "trestbps", "chol", "fbs", "restecg", "thalach",
       "exang", "oldpeak", "slope", "ca", "thal" >>

----------------------------------------------------------------------------
(* Declaration: the two FeatureSpace(...) constructor calls.               *)

Feature(name, kind, oov, bins) ==
    [name |-> name, kind |-> kind, oov |-> oov, bins |-> bins]

Cross(names, dim) == [names |-> names, dim |-> dim]

\* num_oov_indices when a feature is named by its type string: one index is
\* reserved for out-of-vocabulary values ("the default behavior").
DefaultNumOov == 1

\* num_bins of "float_discretized" when named by its type string.
DefaultNumBins == 32

CrossingDimDefault == 32

NumBinsAge == 30

CrossingDimSexAge == 64

CrossingDimThalCa == 16

IsCategorical(f) == f.kind \in {"integer_categorical", "string_categorical"}

\* features={...} of the first constructor call, by type string.
BasicFeatures ==
    << Feature("sex", "integer_categorical", DefaultNumOov, 0),
       Feature("cp", "integer_categorical", DefaultNumOov, 0),
       Feature("fbs", "integer_categorical", DefaultNumOov, 0),
       Feature("restecg", "integer_categorical", DefaultNumOov, 0),
       Feature("exang", "integer_categorical", DefaultNumOov, 0),
       Feature("ca", "integer_categorical", DefaultNumOov, 0),
       Feature("thal", "string_categorical", DefaultNumOov, 0),
       Feature("age", "float_discretized", 0, DefaultNumBins),
       Feature("trestbps", "float_normalized", 0, 0),
       Feature("chol", "float_normalized", 0, 0),
       Feature("thalach", "float_normalized", 0, 0),
       Feature("oldpeak", "float_normalized", 0, 0),
       Feature("slope", "float_normalized", 0, 0) >>

BasicCrosses ==
    << Cross(<<"sex", "age">>, CrossingDimDefault),
       Cross(<<"thal", "ca">>, CrossingDimDefault) >>

\* features={...} of the second constructor call, with num_oov_indices=0.
CustomFeatures ==
    << Feature("sex", "integer_categorical", 0, 0),
       Feature("cp", "integer_categorical", 0, 0),
       Feature("fbs", "integer_categorical", 0, 0),
       Feature("restecg", "integer_categorical", 0, 0),
       Feature("exang", "integer_categorical", 0, 0),
       Feature("ca", "integer_categorical", 0, 0),
       Feature("thal", "string_categorical", 0, 0),
       Feature("age", "float_discretized", 0, NumBinsAge),
       Feature("trestbps", "float_normalized", 0, 0),
       Feature("chol", "float_normalized", 0, 0),
       Feature("thalach", "float_normalized", 0, 0),
       Feature("oldpeak", "float_normalized", 0, 0),
       Feature("slope", "float_normalized", 0, 0) >>

CustomCrosses ==
    << Cross(<<"sex", "age">>, CrossingDimSexAge),
       Cross(<<"thal", "ca">>, CrossingDimThalCa) >>

Configurations ==
    { [features |-> BasicFeatures, crosses |-> BasicCrosses],
      [features |-> CustomFeatures, crosses |-> CustomCrosses] }

FeatureNames(fs) == { fs[i].name : i \in 1..Len(fs) }

FeatureNamed(fs, name) == fs[CHOOSE i \in 1..Len(fs) : fs[i].name = name]

----------------------------------------------------------------------------
(* Helpers on sequences.                                                   *)

Range(s) == { s[i] : i \in 1..Len(s) }

RECURSIVE SumSeq(_)
SumSeq(s) == IF s = << >> THEN 0 ELSE s[1] + SumSeq(Tail(s))

RECURSIVE Flatten(_)
Flatten(ss) == IF ss = << >> THEN << >> ELSE ss[1] \o Flatten(Tail(ss))

\* All orders in which the rows of index set S can be yielded.
RECURSIVE Permutations(_)
Permutations(S) ==
    IF S = {} THEN { << >> }
    ELSE UNION { { << x >> \o p : p \in Permutations(S \ {x}) } : x \in S }

RECURSIVE SortedSeq(_)
SortedSeq(S) ==
    IF S = {} THEN << >>
    ELSE LET m == CHOOSE x \in S : \A y \in S : x <= y
         IN  << m >> \o SortedSeq(S \ {m})

RECURSIVE ISqrtBetween(_, _, _)
ISqrtBetween(lo, hi, x) ==
    IF lo >= hi THEN lo
    ELSE LET mid == (lo + hi + 1) \div 2
         IN  IF mid * mid <= x THEN ISqrtBetween(mid, hi, x)
             ELSE ISqrtBetween(lo, mid - 1, x)

ISqrt(x) == ISqrtBetween(0, x, x)

----------------------------------------------------------------------------
(* Dicts and datasets.                                                     *)

\* The dict of a row with its keys in the given order.
AsDict(row, keys) == [ i \in 1..Len(keys) |-> << keys[i], row[keys[i]] >> ]

\* dict[name]
Get(dict, name) == dict[CHOOSE i \in 1..Len(dict) : dict[i][1] = name][2]

Keys(dict) == { dict[i][1] : i \in 1..Len(dict) }

\* dataframe_to_dataset(dataframe): the (dict of feature values, label) pairs
\* of the rows, the label column popped from the features, in each order the
\* shuffle can yield them.
DataframeToDataset(index, lab) ==
    { [ i \in 1..Len(p) |-> << AsDict(Dataframe[p[i]], ColumnOrder), lab[p[i]] >> ] :
        p \in Permutations(index) }

BatchSize == 32

Min(a, b) == IF a <= b THEN a ELSE b

\* The dicts of a group of rows stacked into one dict of columns.
Stack(dicts) ==
    [ i \in 1..Len(dicts[1]) |->
        << dicts[1][i][1], [ r \in 1..Len(dicts) |-> dicts[r][i][2] ] >> ]

\* ds.batch(32): consecutive groups of at most BatchSize elements, each
\* stacked into a pair (dict of columns, labels).
RECURSIVE Batch(_)
Batch(ds) ==
    IF ds = << >> THEN << >>
    ELSE LET n     == Min(BatchSize, Len(ds))
             group == SubSeq(ds, 1, n)
         IN  << << Stack([ r \in 1..n |-> group[r][1] ]),
                   [ r \in 1..n |-> group[r][2] ] >> >>
             \o Batch(SubSeq(ds, n + 1, Len(ds)))

\* train_ds.map(lambda x, _: x)
WithNoLabels(ds) == [ b \in 1..Len(ds) |-> ds[b][1] ]

----------------------------------------------------------------------------
(* adapt(): the statistics fitted from the training rows.                  *)

EmptyStat == [vocab |-> << >>, count |-> 0, sum |-> 0, sumsq |-> 0, bounds |-> << >>]

\* One value of the feature's column seen by adapt(): a categorical feature
\* indexes it, a normalized feature accumulates it for mean and variance.
UpdateStat(f, st, v) ==
    IF IsCategorical(f)
        THEN [st EXCEPT !.vocab = IF v \in Range(@) THEN @ ELSE Append(@, v)]
    ELSE IF f.kind = "float_normalized"
        THEN [st EXCEPT !.count = @ + 1, !.sum = @ + v, !.sumsq = @ + v * v]
    ELSE st

\* The feature's statistics after the values of one batch's column.
RECURSIVE FitColumn(_, _, _)
FitColumn(f, column, st) ==
    IF column = << >> THEN st
    ELSE FitColumn(f, Tail(column), UpdateStat(f, st, column[1]))

\* The feature's statistics after the batches of `stream` (dicts of columns,
\* in the order the dataset yields them).
RECURSIVE FitFeature(_, _, _)
FitFeature(f, stream, st) ==
    IF stream = << >> THEN st
    ELSE FitFeature(f, Tail(stream), FitColumn(f, Get(stream[1], f.name), st))

\* The values of a column that the stream yields.
SeenValues(stream, n) == UNION { Range(Get(stream[b], n)) : b \in 1..Len(stream) }

DiscretizedNames(fs) ==
    { fs[i].name : i \in { j \in 1..Len(fs) : fs[j].kind = "float_discretized" } }

\* The bin boundaries adapt() may fit for the discretized features: for each
\* one, at most bins-1 cut points among the values seen.
BoundaryChoices(fs, stream) ==
    { cuts \in [DiscretizedNames(fs) ->
                    SUBSET UNION { SeenValues(stream, n) : n \in DiscretizedNames(fs) }] :
        \A n \in DiscretizedNames(fs) :
            /\ cuts[n] \subseteq SeenValues(stream, n)
            /\ Cardinality(cuts[n]) <= FeatureNamed(fs, n).bins - 1 }

FittedStats(fs, stream, cuts) ==
    [ n \in FeatureNames(fs) |->
        LET f  == FeatureNamed(fs, n)
            st == FitFeature(f, stream, EmptyStat)
        IN  IF f.kind = "float_discretized"
                THEN [st EXCEPT !.bounds = SortedSeq(cuts[n])]
                ELSE st ]

----------------------------------------------------------------------------
(* Encoding of one dict of raw feature values.                             *)

\* A sequence without the entries equal to x.
RECURSIVE Without(_, _)
Without(s, x) ==
    IF s = << >> THEN << >>
    ELSE (IF s[1] = x THEN << >> ELSE << s[1] >>) \o Without(Tail(s), x)

\* The column left out of the dict that lacks a declared feature.
DroppedColumn == "thal"

\* Every dict the feature space is called on: the rows of CallRows with all
\* their columns, and last the inference sample without one of them.
CallDicts ==
    [ r \in 1..Len(CallRows) |-> AsDict(CallRows[r], ColumnOrder) ]
    \o << AsDict(sample, Without(ColumnOrder, DroppedColumn)) >>

PositionIn(s, v) == CHOOSE i \in 1..Len(s) : s[i] = v

\* IndexOf with a value that has no index silently given index 0.
IndexOf_SilentDefault(f, st, v) ==
    IF v \in Range(st.vocab) THEN PositionIn(st.vocab, v) - 1 + f.oov
    ELSE 0

\* Index of a categorical value: out-of-vocabulary indexes come first; -1 when
\* the value has no index.
IndexOf(f, st, v) ==
    IF v \in Range(st.vocab) THEN PositionIn(st.vocab, v) - 1 + f.oov
    ELSE IF f.oov > 0 THEN 0
    ELSE -1

\* Index of the bin a value falls in.
BinOf(st, v) == Cardinality({ i \in 1..Len(st.bounds) : st.bounds[i] <= v })

NormScale == 100

\* (v - mean) / sqrt(var) in hundredths, from the accumulated count, sum and
\* sum of squares; a zero deviation is replaced by the smallest positive one.
Normalize(st, v) ==
    LET dev == ISqrt(st.count * st.sumsq - st.sum * st.sum)
    IN  ((v * st.count - st.sum) * NormScale) \div (IF dev = 0 THEN 1 ELSE dev)

\* OneHot cut after the active position instead of padded to n.
OneHot_Unpadded(i, n) == [ k \in 1..(i + 1) |-> IF k = i + 1 THEN 1 ELSE 0 ]

OneHot(i, n) == [ k \in 1..n |-> IF k = i + 1 THEN 1 ELSE 0 ]

\* ColumnWidth without the out-of-vocabulary indexes.
ColumnWidth_IgnoresOov(f, st) ==
    IF IsCategorical(f) THEN Len(st.vocab)
    ELSE IF f.kind = "float_discretized" THEN f.bins
    ELSE 1

ColumnWidth(f, st) ==
    IF IsCategorical(f) THEN Len(st.vocab) + f.oov
    ELSE IF f.kind = "float_discretized" THEN f.bins
    ELSE 1

\* The integer a categorical or discretized feature is preprocessed to.
PreprocessedIndex(f, st, v) ==
    IF IsCategorical(f) THEN IndexOf(f, st, v) ELSE BinOf(st, v)

EncodeColumn(f, st, v) ==
    IF f.kind = "float_normalized" THEN << Normalize(st, v) >>
    ELSE OneHot(PreprocessedIndex(f, st, v), ColumnWidth(f, st))

FingerprintModulus == 65536

\* Fingerprint of a combination of values.
RECURSIVE Fingerprint(_, _)
Fingerprint(h, xs) ==
    IF xs = << >> THEN h
    ELSE Fingerprint((h * 31 + xs[1] + 7) % FingerprintModulus, Tail(xs))

\* Fingerprint of the co-occurring values of the cross's features.
CrossFingerprint(c, fs, sts, dict) ==
    Fingerprint(17, [ i \in 1..Len(c.names) |->
        PreprocessedIndex(FeatureNamed(fs, c.names[i]), sts[c.names[i]],
                          Get(dict, c.names[i])) ])

\* CrossIndex without the reduction to the hashing space.
CrossIndex_NoModulo(c, fs, sts, dict) == CrossFingerprint(c, fs, sts, dict)

\* The bucket a cross's co-occurrence is hashed into.
CrossIndex(c, fs, sts, dict) == CrossFingerprint(c, fs, sts, dict) % c.dim

EncodeCross(c, fs, sts, dict) == OneHot(CrossIndex(c, fs, sts, dict), c.dim)

\* A categorical value that has no index (not in the vocabulary, and no
\* out-of-vocabulary index reserved).
UnknownCategory(fs, sts, dict) ==
    \E i \in 1..Len(fs) :
        /\ IsCategorical(fs[i])
        /\ IndexOf(fs[i], sts[fs[i].name], Get(dict, fs[i].name)) = -1

\* A declared feature that the dict has no value for.
MissingField(fs, dict) == \E i \in 1..Len(fs) : fs[i].name \notin Keys(dict)

\* Concat with the crosses put before the features.
Concat_CrossesFirst(cols, crs) == Flatten(crs) \o Flatten(cols)

\* output_mode="concat": the encoded features, then the crosses.
Concat(cols, crs) == Flatten(cols) \o Flatten(crs)

\* The declared features and crosses that can be computed from the keys of
\* the dict.
PresentFeatures(fs, dict) ==
    SelectSeq(fs, LAMBDA f : f.name \in Keys(dict))

PresentCrosses(crs, dict) ==
    SelectSeq(crs, LAMBDA c : Range(c.names) \subseteq Keys(dict))

\* EncodeRow over the keys of the dict instead of the declared features: a
\* feature the dict lacks is left out of the vector.
EncodeRow_PresentOnly(fs, crs, sts, dict) ==
    LET pfs  == PresentFeatures(fs, dict)
        pcrs == PresentCrosses(crs, dict)
    IN  IF UnknownCategory(pfs, sts, dict)
            THEN [kind |-> "unknown_category", vec |-> << >>]
        ELSE [kind |-> "vector",
              vec  |-> Concat(
                  [ i \in 1..Len(pfs) |-> EncodeColumn(pfs[i], sts[pfs[i].name], Get(dict, pfs[i].name)) ],
                  [ j \in 1..Len(pcrs) |-> EncodeCross(pcrs[j], fs, sts, dict) ])]

EncodeRow(fs, crs, sts, dict) ==
    IF MissingField(fs, dict)
        THEN [kind |-> "missing_field", vec |-> << >>]
    ELSE IF UnknownCategory(fs, sts, dict)
        THEN [kind |-> "unknown_category", vec |-> << >>]
    ELSE [kind |-> "vector",
          vec  |-> Concat(
              [ i \in 1..Len(fs) |-> EncodeColumn(fs[i], sts[fs[i].name], Get(dict, fs[i].name)) ],
              [ j \in 1..Len(crs) |-> EncodeCross(crs[j], fs, sts, dict) ])]

----------------------------------------------------------------------------
(* Encoding of a batch: a dict of columns.                                 *)

BatchLen(x) == Len(x[1][2])

\* The r-th sample of a dict of columns.
SampleOf(x, r) == [ i \in 1..Len(x) |-> << x[i][1], x[i][2][r] >> ]

\* EncodeColumnBatch normalizing with the mean and variance of the batch
\* itself instead of the fitted ones.
EncodeColumnBatch_BatchStatistics(f, st, column) ==
    [ r \in 1..Len(column) |->
        EncodeColumn(f, IF f.kind = "float_normalized" THEN FitColumn(f, column, EmptyStat) ELSE st,
                     column[r]) ]

\* One feature's column preprocessed: per sample, the encoding of its value.
EncodeColumnBatch(f, st, column) ==
    [ r \in 1..Len(column) |-> EncodeColumn(f, st, column[r]) ]

\* One cross over the batch: per sample, the crossing of its co-occurring
\* values.
EncodeCrossBatch(c, fs, sts, x) ==
    [ r \in 1..BatchLen(x) |-> EncodeCross(c, fs, sts, SampleOf(x, r)) ]

\* output_mode="concat" on a batch: the encodings joined along the last
\* axis, a vector per sample.
ConcatBatch(cols, crs, n) ==
    [ r \in 1..n |-> Concat([ k \in 1..Len(cols) |-> cols[k][r] ],
                            [ j \in 1..Len(crs) |-> crs[j][r] ]) ]

\* The error the batch fails with before anything is encoded ("none": no
\* error).
BatchError(fs, sts, x) ==
    IF MissingField(fs, x) THEN "missing_field"
    ELSE IF \E r \in 1..BatchLen(x) : UnknownCategory(fs, sts, SampleOf(x, r))
        THEN "unknown_category"
    ELSE "none"

EncodeFeaturesBatch(fs, sts, x) ==
    [ k \in 1..Len(fs) |-> EncodeColumnBatch(fs[k], sts[fs[k].name], Get(x, fs[k].name)) ]

EncodeCrossesBatch(fs, crs, sts, x) ==
    [ j \in 1..Len(crs) |-> EncodeCrossBatch(crs[j], fs, sts, x) ]

\* feature_space(x) for a dict of columns x: a vector per sample.
EncodeBatch(fs, crs, sts, x) ==
    IF BatchError(fs, sts, x) # "none"
        THEN [kind |-> BatchError(fs, sts, x), vec |-> << >>]
    ELSE [kind |-> "vector",
          vec  |-> ConcatBatch(EncodeFeaturesBatch(fs, sts, x),
                               EncodeCrossesBatch(fs, crs, sts, x), BatchLen(x))]

EncodedDim(fs, crs, sts) ==
    SumSeq([ i \in 1..Len(fs) |-> ColumnWidth(fs[i], sts[fs[i].name]) ])
    + SumSeq([ j \in 1..Len(crs) |-> crs[j].dim ])

----------------------------------------------------------------------------
(* The state machine.                                                      *)

\* train_ds built from the whole dataframe instead of train_dataframe.
TrainDs_WholeDataframe ==
    { Batch(ds) : ds \in DataframeToDataset(train_index \cup val_index, labels) }

\* train_ds = dataframe_to_dataset(train_dataframe), batched: each iteration
\* yields the batches of one shuffle.
TrainDs == { Batch(ds) : ds \in DataframeToDataset(train_index, labels) }

\* val_ds = dataframe_to_dataset(val_dataframe), batched.
ValDs == { Batch(ds) : ds \in DataframeToDataset(val_index, labels) }

NoResult == [kind |-> "none", vec |-> << >>]

NoStats == [ n \in {} |-> EmptyStat ]

\* The preprocessors of a newly constructed object: nothing fitted yet.
UnfittedStats(fs) == [ n \in FeatureNames(fs) |-> EmptyStat ]

Pipelines == {"train", "val"}

NoLayers == [ n \in {} |-> 0 ]

NoModels == [training |-> << >>, inference |-> << >>]

NotFitted == [pc |-> "idle", epoch |-> 0, val_hits |-> 0]

NoPrediction == [kind |-> "none", value |-> 0]

\* A mapped dataset whose function has not been called.
NotCalled ==
    [pc |-> "idle", x |-> << >>, y |-> << >>, cols |-> << >>, out |-> NoResult, par |-> FALSE]

\* dataframe.sample(frac=0.2, ...): the fraction, in tenths.
FracTenths == 2

\* The index pd.read_csv gives a dataframe of n rows: the labels 0..n-1.
RangeIndex(n) == [ i \in 1..n |-> i - 1 ]

\* round(num / den), halves to the even neighbour.
RoundHalfEven(num, den) ==
    LET q == num \div den
        r == num % den
    IN  IF 2 * r > den \/ (2 * r = den /\ q % 2 = 1) THEN q + 1 ELSE q

\* A sample size that drops the fraction of a row.
SampleSize_Truncates(n) == (FracTenths * n) \div 10

\* The number of rows sample(frac=0.2) draws from n rows.
SampleSize(n) == RoundHalfEven(FracTenths * n, 10)

\* The selections sample(frac=0.2, random_state=1337) can make: rows of the
\* dataframe (positions in its index), none drawn twice.
Sample(index) ==
    { S \in SUBSET (1..Len(index)) : Cardinality(S) = SampleSize(Len(index)) }

\* dataframe.drop(lbls): the rows whose index label is not in lbls.
Drop(index, lbls) == { i \in 1..Len(index) : index[i] \notin lbls }

\* The dataframe as loaded, before the split.
Loaded(n) == [index |-> RangeIndex(n), pc |-> "loaded"]

\* The notebook before the first FeatureSpace(...), the dataframe split.
InitObject ==
    /\ frame = [index |-> RangeIndex(Len(Dataframe)), pc |-> "split"]
    /\ fs_state = "Unconfigured"
    /\ features = << >>
    /\ crosses = << >>
    /\ stats = NoStats
    /\ encoded_dim = 0
    /\ train_index \in { S \in SUBSET (1..Len(Dataframe)) :
                            1 <= Cardinality(S) /\ Cardinality(S) <= MaxTrainRows }
    /\ result = NoResult
    /\ last_row = 0
    /\ probe_row = 0
    /\ probe_vec = << >>
    /\ probe_phase = 0
    /\ map_call = [ p \in Pipelines |-> NotCalled ]
    /\ layers = NoLayers
    /\ models = NoModels
    /\ fit = NotFitted
    /\ prediction = NoPrediction

\* The dataframe is the rows shown, with the target column shown.
Init ==
    /\ InitObject
    /\ val_index = (1..Len(Dataframe)) \ train_index
    /\ labels = Target

\* The dataframe is any selection of the rows shown, with either target
\* column.
MapInit ==
    /\ InitObject
    /\ val_index \in { S \in SUBSET ((1..Len(Dataframe)) \ train_index) :
                          1 <= Cardinality(S) /\ Cardinality(S) <= MaxValRows }
    /\ labels \in LabelChoices

\* feature_space = FeatureSpace(features=..., crosses=..., output_mode="concat")
Declare(cfg) ==
    /\ fs_state' = "Configured"
    /\ features' = cfg.features
    /\ crosses' = cfg.crosses
    /\ stats' = UnfittedStats(cfg.features)
    /\ encoded_dim' = 0
    /\ result' = NoResult
    /\ last_row' = 0
    /\ probe_row' = 0
    /\ probe_vec' = << >>
    /\ probe_phase' = 0
    /\ map_call' = [ p \in Pipelines |-> NotCalled ]
    /\ layers' = NoLayers
    /\ models' = NoModels
    /\ fit' = NotFitted
    /\ prediction' = NoPrediction
    /\ UNCHANGED data_vars

\* feature_space.adapt(train_ds_with_no_labels)
Adapt ==
    /\ fs_state = "Configured"
    /\ \E ds \in TrainDs :
       \E cuts \in BoundaryChoices(features, WithNoLabels(ds)) :
            /\ stats' = FittedStats(features, WithNoLabels(ds), cuts)
            /\ encoded_dim' = EncodedDim(features, crosses, stats')
    /\ fs_state' = "Adapted"
    /\ UNCHANGED << features, crosses, data_vars, result, last_row,
                    probe_row, probe_vec, probe_phase, map_call, train_vars >>

\* CallOutcome without the check that adapt() has completed.
CallOutcome_Unchecked(dict) == EncodeRow(features, crosses, stats, dict)

\* The outcome of feature_space(x) for the dict x.
CallOutcome(dict) ==
    IF fs_state # "Adapted" THEN [kind |-> "not_adapted", vec |-> << >>]
    ELSE EncodeRow(features, crosses, stats, dict)

\* The statistics with the categorical values of `row` added to the
\* vocabularies that lack them.
LearnRow(fs, sts, dict) ==
    [ n \in DOMAIN sts |->
        IF n \in Keys(dict) THEN UpdateStat(FeatureNamed(fs, n), sts[n], Get(dict, n))
        ELSE sts[n] ]

\* Apply that also indexes the values it is called on.
Apply_LearnsVocabulary(r) ==
    /\ fs_state # "Unconfigured"
    /\ result' = CallOutcome(CallDicts[r])
    /\ last_row' = r
    /\ stats' = IF fs_state = "Adapted" THEN LearnRow(features, stats, CallDicts[r])
                 ELSE stats
    /\ IF result'.kind = "vector" /\ probe_row = 0
          THEN probe_row' = r /\ probe_vec' = result'.vec /\ probe_phase' = 1
          ELSE /\ UNCHANGED << probe_row, probe_vec >>
               /\ probe_phase' = IF probe_phase = 1 /\ r # probe_row THEN 2
                                 ELSE IF probe_phase = 2 /\ r = probe_row THEN 3
                                 ELSE probe_phase
    /\ UNCHANGED << fs_state, features, crosses, encoded_dim, data_vars,
                    map_call, train_vars >>

\* Apply that drops the fitted statistics when the call fails.
Apply_ForgetsOnError(r) ==
    /\ fs_state # "Unconfigured"
    /\ result' = CallOutcome(CallDicts[r])
    /\ last_row' = r
    /\ stats' = IF result'.kind \in {"unknown_category", "missing_field"}
                    THEN UnfittedStats(features)
                 ELSE stats
    /\ IF result'.kind = "vector" /\ probe_row = 0
          THEN probe_row' = r /\ probe_vec' = result'.vec /\ probe_phase' = 1
          ELSE /\ UNCHANGED << probe_row, probe_vec >>
               /\ probe_phase' = IF probe_phase = 1 /\ r # probe_row THEN 2
                                 ELSE IF probe_phase = 2 /\ r = probe_row THEN 3
                                 ELSE probe_phase
    /\ UNCHANGED << fs_state, features, crosses, encoded_dim, data_vars,
                    map_call, train_vars >>

\* preprocessed_x = feature_space(x), x the r-th dict of CallDicts
Apply(r) ==
    /\ fs_state # "Unconfigured"
    /\ result' = CallOutcome(CallDicts[r])
    /\ last_row' = r
    /\ IF result'.kind = "vector" /\ probe_row = 0
          THEN probe_row' = r /\ probe_vec' = result'.vec /\ probe_phase' = 1
          ELSE /\ UNCHANGED << probe_row, probe_vec >>
               /\ probe_phase' = IF probe_phase = 1 /\ r # probe_row THEN 2
                                 ELSE IF probe_phase = 2 /\ r = probe_row THEN 3
                                 ELSE probe_phase
    /\ UNCHANGED << fs_state, features, crosses, stats, encoded_dim,
                    data_vars, map_call, train_vars >>

\* The outcome of feature_space(x) for the dict of columns x, called
\* alone.
CallOutcomeBatch(x) ==
    IF fs_state # "Adapted" THEN [kind |-> "not_adapted", vec |-> << >>]
    ELSE EncodeBatch(features, crosses, stats, x)

\* The iterations of the dataset a pipeline maps over.
MappedDs(p) == IF p = "train" THEN TrainDs ELSE ValDs

\* The batch's values added to the statistics.
LearnBatch(fs, sts, x) ==
    [ n \in DOMAIN sts |-> FitColumn(FeatureNamed(fs, n), Get(x, n), sts[n]) ]

\* Another mapped call is in flight.
OtherInFlight(p) == \E q \in Pipelines \ {p} : map_call[q].pc = "encoded"

\* A call in flight when another one starts has run in parallel with it.
Overlapped(c) == IF c.pc = "encoded" THEN [c EXCEPT !.par = TRUE] ELSE c

\* MapStart whose lookups index the values of the batch they are called on.
MapStart_Learns(p) ==
    /\ fs_state = "Adapted"
    /\ map_call[p].pc \in {"idle", "done"}
    /\ \E ds \in MappedDs(p) : \E b \in 1..Len(ds) :
          LET x == ds[b][1]
              y == ds[b][2]
          IN  /\ stats' = LearnBatch(features, stats, x)
              /\ map_call' = [ q \in Pipelines |->
                    IF q = p
                        THEN [pc |-> "encoded", x |-> x, y |-> y,
                              cols |-> EncodeFeaturesBatch(features, stats', x),
                              out |-> NoResult, par |-> OtherInFlight(p)]
                    ELSE Overlapped(map_call[q]) ]
    /\ UNCHANGED << fs_state, features, crosses, encoded_dim, data_vars,
                    result, last_row, probe_row, probe_vec, probe_phase,
                    train_vars >>

\* An element of train_ds.map(lambda x, y: (feature_space(x), y),
\* num_parallel_calls=AUTOTUNE), or of the same over val_ds: the function is
\* called on a batch and preprocesses its features, or fails.
MapStart(p) ==
    /\ fs_state = "Adapted"
    /\ map_call[p].pc \in {"idle", "done"}
    /\ \E ds \in MappedDs(p) : \E b \in 1..Len(ds) :
          LET x   == ds[b][1]
              y   == ds[b][2]
              err == BatchError(features, stats, x)
          IN  map_call' = [ q \in Pipelines |->
                IF q # p THEN Overlapped(map_call[q])
                ELSE IF err # "none"
                    THEN [pc |-> "done", x |-> x, y |-> y, cols |-> << >>,
                          out |-> [kind |-> err, vec |-> << >>],
                          par |-> OtherInFlight(p)]
                ELSE [pc |-> "encoded", x |-> x, y |-> y,
                      cols |-> EncodeFeaturesBatch(features, stats, x),
                      out |-> NoResult, par |-> OtherInFlight(p)] ]
    /\ UNCHANGED << fs_state, features, crosses, stats, encoded_dim, data_vars,
                    result, last_row, probe_row, probe_vec, probe_phase,
                    train_vars >>

\* The call in flight crosses the features, concatenates and returns the
\* element (vectors, labels).
MapFinish(p) ==
    /\ map_call[p].pc = "encoded"
    /\ LET c == map_call[p]
       IN  map_call' = [map_call EXCEPT ![p] =
             [c EXCEPT !.pc = "done",
                       !.out = [kind |-> "vector",
                                vec  |-> ConcatBatch(c.cols,
                                            EncodeCrossesBatch(features, crosses, stats, c.x),
                                            BatchLen(c.x))]]]
    /\ UNCHANGED << fs_state, features, crosses, stats, encoded_dim, data_vars,
                    result, last_row, probe_row, probe_vec, probe_phase,
                    train_vars >>

----------------------------------------------------------------------------
(* The models and their training.                                          *)

\* The layers with weights, in the order they are applied:
\* Dense(32, activation="relu") and Dense(1, activation="sigmoid").  The
\* Dropout between them has no weights and passes its input on outside fit.
ClassifierLayers == << "dense", "dense_1" >>

Epochs == 20

\* The output of the layers named, with the weights ws, on the value v.
RECURSIVE Forward(_, _, _)
Forward(names, ws, v) ==
    IF names = << >> THEN v
    ELSE Forward(Tail(names), ws, (ws[names[1]] * v + ws[names[1]]) % WeightModulus)

\* The sum of s[lo..hi].
RECURSIVE SumRange(_, _, _)
SumRange(s, lo, hi) ==
    IF lo > hi THEN 0
    ELSE IF lo = hi THEN s[lo]
    ELSE LET mid == (lo + hi) \div 2
         IN  SumRange(s, lo, mid) + SumRange(s, mid + 1, hi)

\* What the first layer sees of a vector of encoded features.
Checksum(vec) == SumRange(vec, 1, Len(vec)) % WeightModulus

\* training_model(vec): from encoded features to the prediction.
TrainingModel(vec) == Forward(models.training, layers, Checksum(vec))

\* inference_model(dict): from a dict of raw feature values, through the
\* feature space, to the prediction.
InferenceModel(dict) ==
    LET enc == CallOutcome(dict)
    IN  IF enc.kind # "vector" THEN [kind |-> enc.kind, value |-> 0]
        ELSE [kind |-> "value",
              value |-> Forward(models.inference, layers, Checksum(enc.vec))]

\* BuildModels giving inference_model layers of its own, copies of those of
\* training_model.
BuildModels_ClonesLayers ==
    /\ fs_state = "Adapted"
    /\ models = NoModels
    /\ \E w \in [Range(ClassifierLayers) -> 1..MaxInitialWeight] :
          layers' = [ n \in {"dense", "dense_1", "dense_2", "dense_3"} |->
                        IF n = "dense_2" THEN w["dense"]
                        ELSE IF n = "dense_3" THEN w["dense_1"]
                        ELSE w[n] ]
    /\ models' = [training |-> ClassifierLayers, inference |-> << "dense_2", "dense_3" >>]
    /\ UNCHANGED << fs_state, features, crosses, stats, encoded_dim, data_vars,
                    result, last_row, probe_row, probe_vec, probe_phase,
                    map_call, fit, prediction >>

\* The cell that builds the two models: the layers are created, with some
\* initial weights, on encoded_features; training_model and inference_model
\* both end in the same `predictions`, so both hold these layers.
BuildModels ==
    /\ fs_state = "Adapted"
    /\ models = NoModels
    /\ \E w \in [Range(ClassifierLayers) -> 1..MaxInitialWeight] : layers' = w
    /\ models' = [training |-> ClassifierLayers, inference |-> ClassifierLayers]
    /\ UNCHANGED << fs_state, features, crosses, stats, encoded_dim, data_vars,
                    result, last_row, probe_row, probe_vec, probe_phase,
                    map_call, fit, prediction >>

\* training_model.fit(preprocessed_train_ds, epochs=20, ...) is called.
FitStart ==
    /\ models # NoModels
    /\ fit.pc = "idle"
    /\ fit' = [pc |-> "train", epoch |-> 0, val_hits |-> 0]
    /\ UNCHANGED << fs_state, features, crosses, stats, encoded_dim, data_vars,
                    result, last_row, probe_row, probe_vec, probe_phase,
                    map_call, layers, models, prediction >>

\* The elements of a preprocessed dataset: per batch, the outcome of the
\* feature space on it.
Preprocessed(ds) == [ b \in 1..Len(ds) |-> CallOutcomeBatch(ds[b][1]) ]

Failed(outs) == \E b \in 1..Len(outs) : outs[b].kind # "vector"

\* What a batch of vectors and labels adds to the weights.
Gradient(vecs, ys) ==
    SumSeq([ r \in 1..Len(vecs) |-> (1 + ys[r]) * (1 + Checksum(vecs[r])) ])

\* One pass of the epoch over preprocessed_train_ds: the weights of the
\* layers of training_model are updated with every batch.
FitTrainPass ==
    /\ fit.pc = "train"
    /\ \E ds \in TrainDs :
          LET outs == Preprocessed(ds)
              g    == SumSeq([ b \in 1..Len(ds) |-> Gradient(outs[b].vec, ds[b][2]) ])
          IN  IF Failed(outs)
                  THEN fit' = [fit EXCEPT !.pc = "failed"] /\ UNCHANGED layers
              ELSE /\ fit' = [fit EXCEPT !.pc = "validate"]
                   /\ layers' = [ n \in DOMAIN layers |->
                                    IF n \in Range(models.training)
                                        THEN (layers[n] + g) % WeightModulus
                                    ELSE layers[n] ]
    /\ UNCHANGED << fs_state, features, crosses, stats, encoded_dim, data_vars,
                    result, last_row, probe_row, probe_vec, probe_phase,
                    map_call, models, prediction >>

\* The samples of the validation batches that the model classifies as
\* their label says.
ValHits(outs, ds) ==
    SumSeq([ b \in 1..Len(ds) |->
        Cardinality({ r \in 1..Len(outs[b].vec) :
                        TrainingModel(outs[b].vec[r]) % 2 = ds[b][2][r] }) ])

\* The validation pass that ends the epoch, over preprocessed_val_ds; after
\* the last epoch fit returns.
FitValidationPass ==
    /\ fit.pc = "validate"
    /\ \E ds \in ValDs :
          LET outs == Preprocessed(ds)
          IN  IF Failed(outs)
                  THEN fit' = [fit EXCEPT !.pc = "failed"]
              ELSE fit' = [pc |-> IF fit.epoch + 1 >= Epochs THEN "done" ELSE "train",
                           epoch |-> fit.epoch + 1,
                           val_hits |-> ValHits(outs, ds)]
    /\ UNCHANGED << fs_state, features, crosses, stats, encoded_dim, data_vars,
                    result, last_row, probe_row, probe_vec, probe_phase,
                    map_call, layers, models, prediction >>

\* predictions = inference_model.predict(input_dict), input_dict built from
\* sample.
Predict ==
    /\ models # NoModels
    /\ fit.pc \in {"done", "failed"}
    /\ prediction' = InferenceModel(AsDict(sample, ColumnOrder))
    /\ UNCHANGED << fs_state, features, crosses, stats, encoded_dim, data_vars,
                    result, last_row, probe_row, probe_vec, probe_phase,
                    map_call, layers, models, fit >>

Next ==
    \/ \E cfg \in Configurations : Declare(cfg)
    \/ Adapt
    \/ \E r \in 1..Len(CallDicts) : Apply(r)

Spec == Init /\ [][Next]_vars

\* The notebook up to the mapped datasets: declaration, adapt(), and the
\* parallel calls of the two mapped datasets.
MapNext ==
    \/ \E cfg \in Configurations : Declare(cfg)
    \/ Adapt
    \/ \E p \in Pipelines : MapStart(p)
    \/ \E p \in Pipelines : MapFinish(p)

MapSpec == MapInit /\ [][MapNext]_vars

\* The notebook from the declaration to the prediction, the datasets
\* preprocessed as fit iterates them.
TrainNext ==
    \/ \E cfg \in Configurations : Declare(cfg)
    \/ Adapt
    \/ BuildModels
    \/ FitStart
    \/ FitTrainPass
    \/ FitValidationPass
    \/ Predict

\* The dataframe is any selection of the rows shown, with the target column
\* shown.
TrainInit == MapInit /\ labels = Target

TrainSpec == TrainInit /\ [][TrainNext]_vars

\* The notebook after pd.read_csv, for a file of any number of rows, before
\* the split.
SplitInit ==
    /\ fs_state = "Unconfigured"
    /\ features = << >>
    /\ crosses = << >>
    /\ stats = NoStats
    /\ encoded_dim = 0
    /\ frame \in { Loaded(n) : n \in 1..MaxFrameRows }
    /\ train_index = {}
    /\ val_index = {}
    /\ labels = Target
    /\ result = NoResult
    /\ last_row = 0
    /\ probe_row = 0
    /\ probe_vec = << >>
    /\ probe_phase = 0
    /\ map_call = [ p \in Pipelines |-> NotCalled ]
    /\ layers = NoLayers
    /\ models = NoModels
    /\ fit = NotFitted
    /\ prediction = NoPrediction

\* val_dataframe = dataframe.sample(frac=0.2, random_state=1337)
\* train_dataframe = dataframe.drop(val_dataframe.index)
Split ==
    /\ frame.pc = "loaded"
    /\ \E S \in Sample(frame.index) :
          /\ val_index' = S
          /\ train_index' = Drop(frame.index, { frame.index[i] : i \in S })
    /\ frame' = [frame EXCEPT !.pc = "split"]
    /\ UNCHANGED << fs_state, features, crosses, stats, encoded_dim, labels,
                    result, last_row, probe_row, probe_vec, probe_phase,
                    map_call, train_vars >>

SplitNext == Split

SplitSpec == SplitInit /\ [][SplitNext]_vars

----------------------------------------------------------------------------
(* Properties.                                                             *)

\* The last call returned a feature vector.
Encoded == result.kind = "vector"

\* The values of a column in the training rows, whatever their order.
TrainValues(n) == { Dataframe[r][n] : r \in train_index }

\* Width of a feature's encoding, from the declaration and the set of
\* training values alone.
TrainWidth(f) ==
    IF IsCategorical(f) THEN Cardinality(TrainValues(f.name)) + f.oov
    ELSE IF f.kind = "float_discretized" THEN f.bins
    ELSE 1

TrainWidths == [ k \in 1..Len(features) |-> TrainWidth(features[k]) ]

CrossDims == [ j \in 1..Len(crosses) |-> crosses[j].dim ]

\* Where the k-th declared feature and the j-th declared cross start.
ColumnOffset(k) == SumSeq(SubSeq(TrainWidths, 1, k - 1))

CrossOffset(j) == SumSeq(TrainWidths) + SumSeq(SubSeq(CrossDims, 1, j - 1))

Segment(vec, off, w) == SubSeq(vec, off + 1, off + w)

Ones(seg) == { k \in 1..Len(seg) : seg[k] = 1 }

\* The categorical features whose value in the last row was not among the
\* training values.
UnseenIn(r) ==
    { k \in 1..Len(features) :
        /\ IsCategorical(features[k])
        /\ CallRows[r][features[k].name] \notin TrainValues(features[k].name) }

\* C1: a call of the feature space before adapt() has completed fails with
\* the not-adapted error and yields no vector; a call that yields a vector
\* is made on an object whose adapt() has completed; an object that was
\* never constructed was never called.
C1_Lifecycle ==
    /\ fs_state \in {"Unconfigured", "Configured", "Adapted"}
    /\ (fs_state = "Unconfigured" => last_row = 0 /\ result = NoResult)
    /\ (fs_state = "Configured" /\ last_row # 0 =>
            result.kind = "not_adapted" /\ result.vec = << >>)
    /\ (result.kind \in {"vector", "unknown_category"} => fs_state = "Adapted")
    /\ (fs_state = "Adapted" <=> encoded_dim > 0)

C1_Witness ==
    fs_state = "Configured" /\ last_row # 0 /\ result.kind = "not_adapted"

\* C3: whenever the row that was encoded first is passed again, with any
\* other calls in between, the call returns the vector it returned first.
C3_Deterministic ==
    (probe_row # 0 /\ last_row = probe_row) =>
        (Encoded /\ result.vec = probe_vec)

C3_Witness ==
    probe_phase = 3 /\ last_row = probe_row /\ Encoded

\* C4: every vector an adapted object returns has the length fixed when
\* adaptation completed: the first one and the last one alike.
C4_LengthFixed ==
    /\ (Encoded => Len(result.vec) = encoded_dim)
    /\ (probe_row # 0 => Len(probe_vec) = encoded_dim)

C4_Witness ==
    /\ Encoded
    /\ probe_row # 0
    /\ last_row # probe_row
    /\ result.vec # probe_vec
    /\ Len(result.vec) = Len(probe_vec)

\* C5: on an adapted object, a row with a categorical value unseen in the
\* training rows fails with the unknown-category error when the feature has
\* num_oov_indices=0; when every such feature reserves an out-of-vocabulary
\* index the call returns a vector in which that feature's one-hot segment
\* has its first position (the out-of-vocabulary slot) active.
C5_UnknownCategory ==
    (fs_state = "Adapted" /\ result.kind \in {"vector", "unknown_category"}) =>
        LET unseen == UnseenIn(last_row)
        IN  /\ (\E k \in unseen : features[k].oov = 0) =>
                    (result.kind = "unknown_category" /\ result.vec = << >>)
            /\ (\A k \in unseen : features[k].oov > 0) =>
                    /\ Encoded
                    /\ \A k \in unseen :
                          Segment(result.vec, ColumnOffset(k), TrainWidth(features[k]))
                              = OneHot(0, TrainWidth(features[k]))

C5_Witness ==
    /\ fs_state = "Adapted"
    /\ result.kind = "unknown_category"
    /\ \E k \in UnseenIn(last_row) : features[k].oov = 0

\* The other half of C5 happens too: an unseen value encoded into the
\* out-of-vocabulary slot.
C5_OovSlotReached ==
    /\ Encoded
    /\ UnseenIn(last_row) # {}
    /\ \A k \in UnseenIn(last_row) : features[k].oov = 1

\* C8: in every vector, the segment of each cross has exactly the cross's
\* hashing dimension d as its length, holds only zeros and ones, and has
\* exactly one active position (so the active index is in [0, d)).
C8_CrossOneHot ==
    Encoded =>
        /\ Len(result.vec) = SumSeq(TrainWidths) + SumSeq(CrossDims)
        /\ \A j \in 1..Len(crosses) :
              LET seg == Segment(result.vec, CrossOffset(j), crosses[j].dim)
              IN  /\ Len(seg) = crosses[j].dim
                  /\ \A k \in 1..Len(seg) : seg[k] \in {0, 1}
                  /\ Cardinality(Ones(seg)) = 1

C8_Witness ==
    /\ Encoded
    /\ Len(crosses) = 2
    /\ \E j \in 1..Len(crosses) :
          CrossFingerprint(crosses[j], features, stats,
                           AsDict(CallRows[last_row], ColumnOrder)) >= crosses[j].dim

C12_CallFrame ==
    [][(fs_state = "Adapted" /\ fs_state' = "Adapted") =>
            /\ features' = features
            /\ crosses' = crosses
            /\ stats' = stats
            /\ encoded_dim' = encoded_dim]_vars

C12_Witness ==
    /\ fs_state = "Adapted"
    /\ probe_phase = 3
    /\ result.kind = "unknown_category"

\* C14: a call of an adapted object on a dict that lacks a declared feature
\* fails with the missing-field error and returns no vector; a call on a
\* dict that has all the declared features, such as the 13 fields of the
\* inference sample, does not fail with that error.
C14_MissingField ==
    (fs_state = "Adapted" /\ last_row # 0 /\ result.kind # "not_adapted") =>
        LET lacking == FeatureNames(features) \ Keys(CallDicts[last_row])
        IN  /\ (lacking # {} => result.kind = "missing_field" /\ result.vec = << >>)
            /\ (lacking = {} => result.kind # "missing_field")
            /\ (CallDicts[last_row] = AsDict(sample, ColumnOrder) =>
                    lacking = {} /\ Len(CallDicts[last_row]) = 13)

C14_Witness ==
    /\ fs_state = "Adapted"
    /\ last_row # 0
    /\ DroppedColumn \notin Keys(CallDicts[last_row])
    /\ result.kind = "missing_field"

\* The other half of C14 happens too: the complete inference sample is
\* encoded.
C14_SampleEncoded ==
    /\ last_row # 0
    /\ CallDicts[last_row] = AsDict(sample, ColumnOrder)
    /\ Encoded

\* C17: in every vector, the segment of each categorical feature is a
\* one-hot of length (size of the fitted vocabulary + num_oov_indices) with
\* exactly one active position; the fitted vocabulary has one entry per
\* distinct value seen by adapt(), so with num_oov_indices=0 the length is
\* the number of distinct training values.
C17_CategoricalOneHot ==
    Encoded =>
        \A k \in 1..Len(features) :
            IsCategorical(features[k]) =>
                LET f     == features[k]
                    vocab == stats[f.name].vocab
                    seg   == Segment(result.vec, ColumnOffset(k), Len(vocab) + f.oov)
                IN  /\ Len(seg) = Len(vocab) + f.oov
                    /\ \A i \in 1..Len(seg) : seg[i] \in {0, 1}
                    /\ Cardinality(Ones(seg)) = 1
                    /\ Len(vocab) = Cardinality(TrainValues(f.name))
                    /\ (f.oov = 0 => Len(seg) = Cardinality(TrainValues(f.name)))

C17_Witness ==
    /\ Encoded
    /\ \E k \in 1..Len(features) :
          /\ IsCategorical(features[k])
          /\ features[k].oov = 0
          /\ Len(stats[features[k].name].vocab) = 2
    /\ \E k \in 1..Len(features) :
          /\ IsCategorical(features[k])
          /\ Len(stats[features[k].name].vocab) = 1

\* C13: whatever the interleaving of the mapped calls, the element each one
\* returns is what a call of the feature space on the same batch alone
\* returns: the same vectors, or the same error.
C13_ParallelMap ==
    \A p \in Pipelines :
        map_call[p].pc = "done" => map_call[p].out = CallOutcomeBatch(map_call[p].x)

C13_Witness ==
    /\ \A p \in Pipelines : map_call[p].pc = "done" /\ map_call[p].par
    /\ \E p \in Pipelines : map_call[p].out.kind = "vector" /\ BatchLen(map_call[p].x) = 2

\* C15: row r of the vectors returned for a batch is the vector returned for
\* sample r alone, passed as a batch of size one, which is also the vector
\* of the call on the sample's dict of values.
C15_BatchAgrees ==
    \A p \in Pipelines :
        (map_call[p].pc = "done" /\ map_call[p].out.kind = "vector") =>
            /\ Len(map_call[p].out.vec) = BatchLen(map_call[p].x)
            /\ \A r \in 1..BatchLen(map_call[p].x) :
                  LET one == SampleOf(map_call[p].x, r)
                  IN  /\ CallOutcomeBatch(Stack(<< one >>)) =
                            [kind |-> "vector", vec |-> << map_call[p].out.vec[r] >>]
                      /\ CallOutcome(one) =
                            [kind |-> "vector", vec |-> map_call[p].out.vec[r]]

C15_Witness ==
    \E p \in Pipelines :
        /\ map_call[p].pc = "done"
        /\ map_call[p].out.kind = "vector"
        /\ BatchLen(map_call[p].x) = 2
        /\ map_call[p].out.vec[1] # map_call[p].out.vec[2]

\* The statistics that depend on the feature values of the training rows
\* alone: each vocabulary holds the distinct training values once, count,
\* sum and sum of squares are those of the training values, and the bin
\* boundaries are training values.
FitsTrainingRows(sts) ==
    \A k \in 1..Len(features) :
        LET f  == features[k]
            st == sts[f.name]
        IN  /\ Range(st.vocab) = (IF IsCategorical(f) THEN TrainValues(f.name) ELSE {})
            /\ Len(st.vocab) = Cardinality(Range(st.vocab))
            /\ st.count = (IF f.kind = "float_normalized" THEN Cardinality(train_index) ELSE 0)
            /\ st.sum = (IF f.kind = "float_normalized"
                            THEN SumSeq([ i \in 1..Cardinality(train_index) |->
                                            Dataframe[SortedSeq(train_index)[i]][f.name] ])
                         ELSE 0)
            /\ st.sumsq = (IF f.kind = "float_normalized"
                              THEN SumSeq([ i \in 1..Cardinality(train_index) |->
                                              Dataframe[SortedSeq(train_index)[i]][f.name]
                                              * Dataframe[SortedSeq(train_index)[i]][f.name] ])
                           ELSE 0)
            /\ Range(st.bounds) \subseteq (IF f.kind = "float_discretized"
                                               THEN TrainValues(f.name) ELSE {})

\* C18: adapt() is given the dicts of feature values of the training rows,
\* without the labels: the dataset it consumes yields dicts whose keys are
\* the feature columns, and the fitted statistics are determined by the
\* feature values of the training rows, whatever the target column and
\* whatever the rows of the validation split.
C18_TrainingRowsOnly ==
    /\ \A ds \in TrainDs :
          /\ \A b \in 1..Len(ds) :
                /\ Keys(WithNoLabels(ds)[b]) = Range(ColumnOrder)
                /\ "target" \notin Keys(WithNoLabels(ds)[b])
          /\ SumSeq([ b \in 1..Len(ds) |-> BatchLen(WithNoLabels(ds)[b]) ])
                = Cardinality(train_index)
          /\ UNION { { SampleOf(WithNoLabels(ds)[b], r) :
                          r \in 1..BatchLen(WithNoLabels(ds)[b]) } : b \in 1..Len(ds) }
                = { AsDict(Dataframe[i], ColumnOrder) : i \in train_index }
    /\ "target" \notin FeatureNames(features)
    /\ (fs_state = "Adapted" => FitsTrainingRows(stats))

C18_Witness ==
    /\ fs_state = "Adapted"
    /\ labels # Target
    /\ val_index # (1..Len(Dataframe)) \ train_index
    /\ \E n \in FeatureNames(features) :
          \E v \in val_index : Dataframe[v][n] \notin TrainValues(n)

\* C19: at every point from the construction of the models on (before,
\* during and after fit), for every row of the datasets and for sample, if
\* the feature space encodes it, the inference model on the row's dict
\* returns the value the training model returns on the row's encoding.
C19_PathsAgree ==
    models # NoModels =>
        \A row \in { Dataframe[r] : r \in train_index \cup val_index } \cup { sample } :
            LET d   == AsDict(row, ColumnOrder)
                enc == CallOutcome(d)
            IN  enc.kind = "vector" =>
                    InferenceModel(d) = [kind |-> "value", value |-> TrainingModel(enc.vec)]

C19_Witness ==
    /\ fit.pc = "done"
    /\ prediction.kind = "value"
    /\ prediction = InferenceModel(AsDict(sample, ColumnOrder))
    /\ \E n \in DOMAIN layers : layers[n] > MaxInitialWeight

DocEpochs == 50

\* C20: when fit returns, it has made 50 passes over the training dataset,
\* each followed by a validation pass.
C20_FiftyEpochs ==
    fit.pc = "done" => fit.epoch = DocEpochs

\* The rows of the file, and the counts the split cell printed for it.
DatasetRows == 303

ReportedTrain == 242

ReportedVal == 61

\* C21: after the split, the validation rows are the 20% of the rows,
\* rounded to a whole number (61 of 303), the training rows are the other
\* rows (242 of 303): no row is in both sets and every row is in one.
C21_SplitPartitions ==
    /\ SampleSize(DatasetRows) = ReportedVal
    /\ DatasetRows - SampleSize(DatasetRows) = ReportedTrain
    /\ frame.pc = "split" =>
          LET n == Len(frame.index)
              v == Cardinality(val_index)
          IN  /\ train_index \cap val_index = {}
              /\ train_index \cup val_index = 1..n
              /\ train_index = (1..n) \ val_index
              /\ 5 * v - n <= 2
              /\ n - 5 * v <= 2

C21_Witness ==
    /\ frame.pc = "split"
    /\ Cardinality(val_index) = 2
    /\ Cardinality(train_index) = 6
    /\ 1 \in val_index

=============================================================================
